---- MODULE Spec2Model ----
(***************************************************************************)
(* A model of the TransCode codec service (src/server/main.py): the header *)
(* framing, the big-integer ("prime") codec, the note-sequence (MIDI)      *)
(* codec, the QR codec's request checks and the hash verifier.             *)
(*                                                                         *)
(* The service is stateless: each request is handled on its own.  The      *)
(* state of the model is the last exchange (op, req, resp), the codec      *)
(* steps the handler ran while serving it (steps), and the carrier a       *)
(* client holds from the last successful encode (held), which it may hand  *)
(* to the matching decode operation.  A request is made when no exchange   *)
(* is open (op = "start"); Finish closes the exchange, after which nothing *)
(* of it is left.                                                          *)
(*                                                                         *)
(* Bytes are numbers 0..255, byte strings are sequences of bytes, text     *)
(* strings are sequences of Unicode code points.  Python's unbounded       *)
(* integers are modelled as normalised big-endian base-256 digit strings   *)
(* (no leading zero digit; zero is the empty string).                      *)
(***************************************************************************)
EXTENDS Integers, Sequences, FiniteSets, TLC

VARIABLES op, req, resp, steps, held

vars == <<op, req, resp, steps, held>>

----------------------------------------------------------------------------
(* Bounds of the model.                                                    *)

MaxPayload == 2        \* longest payload handed to the prime codec / framing
MaxName == 2           \* longest filename, in code points
MaxRest == 6           \* longest tail of an arbitrary buffer after its first field
MaxPrimeStr == 3       \* longest arbitrary string handed to the prime decoder
MaxMidiLen == 3        \* longest multi-byte payload handed to the MIDI encoder
MaxTrackLen == 2       \* longest track of an arbitrary uploaded MIDI file
LenSlack == 1          \* digests of length 64 - LenSlack .. 64 + LenSlack
SizeSlack == 1         \* QR payloads of 500 KiB - SizeSlack .. 500 KiB + SizeSlack

----------------------------------------------------------------------------
(* Generic helpers.                                                        *)

SeqsUpTo(S, n) == UNION {[1..k -> S] : k \in 0..n}

Repeat(x, n) == [i \in 1..n |-> x]

Slice(s, a, b) == [i \in 1..(IF b > a THEN b - a ELSE 0) |-> s[a + i]]
    \* Python's s[a:b] for 0 <= a, b <= len(s): elements a+1 .. b, 1-based

Max(a, b) == IF a >= b THEN a ELSE b

Min(a, b) == IF a <= b THEN a ELSE b

----------------------------------------------------------------------------
(* Python integers.                                                        *)

\* int.to_bytes(4, byteorder='big') for 0 <= n < 2^31
to_bytes4(n) ==
    << (n \div 16777216) % 256, (n \div 65536) % 256, (n \div 256) % 256, n % 256 >>

\* the four bytes read with byteorder='little'
from_bytes4_little(s) ==
    IF s[4] >= 128 THEN 2147483647
    ELSE s[4] * 16777216 + s[3] * 65536 + s[2] * 256 + s[1]

\* int.from_bytes(four bytes, byteorder='big').  A value of 2^31 or more is
\* reported as 2^31 - 1: the code only compares it with 500 and with buffer
\* lengths, all far below 2^31, so the comparison's outcome is the same.
from_bytes4(s) ==
    IF s[1] >= 128 THEN 2147483647
    ELSE s[1] * 16777216 + s[2] * 65536 + s[3] * 256 + s[4]

RECURSIVE StripLeadingZeros(_)
StripLeadingZeros(s) ==
    IF s = << >> THEN << >>
    ELSE IF s[1] = 0 THEN StripLeadingZeros(Tail(s))
    ELSE s

\* int.from_bytes(full_data, byteorder='big'): the number's digit string
int_from_bytes(s) == StripLeadingZeros(s)

\* (big_int.bit_length() + 7) // 8
byte_length(n) == Len(n)

\* big_int.to_bytes(byte_length, byteorder='big'): byte_length digits, which
\* for byte_length = byte_length(n) are exactly the digits of n
int_to_bytes(n, length) ==
    IF length >= Len(n) THEN Repeat(0, length - Len(n)) \o n ELSE << >>

RECURSIVE DivStep(_, _, _, _)
DivStep(n, i, rem, acc) ==
    IF i > Len(n) THEN [q |-> StripLeadingZeros(acc), r |-> rem]
    ELSE LET cur == rem * 256 + n[i]
         IN DivStep(n, i + 1, cur % 10, Append(acc, cur \div 10))

\* divmod(n, 10) on digit strings
DivMod10(n) == DivStep(n, 1, 0, << >>)

RECURSIVE MulStep(_, _, _, _)
MulStep(n, i, carry, acc) ==
    IF i = 0 THEN (IF carry = 0 THEN acc ELSE << carry >> \o acc)
    ELSE LET cur == n[i] * 10 + carry
         IN MulStep(n, i - 1, cur \div 256, << cur % 256 >> \o acc)

\* n * 10 + d on digit strings
MulAdd10(n, d) == StripLeadingZeros(MulStep(n, Len(n), d, << >>))

RECURSIVE DecimalDigits(_)
DecimalDigits(n) ==
    IF n = << >> THEN << >>
    ELSE LET dm == DivMod10(n)
         IN Append(DecimalDigits(dm.q), 48 + dm.r)

RECURSIVE HexDigits(_)
HexDigits(n) ==
    IF n = << >> THEN << >>
    ELSE LET hi == n[1] \div 16
             lo == n[1] % 16
             ch(d) == IF d < 10 THEN 48 + d ELSE 87 + d
         IN << ch(hi), ch(lo) >> \o HexDigits(Tail(n))

\* the number rendered in base 16 instead of base 10
int_to_str_hex(n) == IF n = << >> THEN << 48 >> ELSE HexDigits(n)

\* str(big_int) for big_int >= 0: the decimal numeral, as code points
int_to_str(n) == IF n = << >> THEN << 48 >> ELSE DecimalDigits(n)

IsDigit(c) == c >= 48 /\ c <= 57

IsSpace(c) == c \in {9, 10, 11, 12, 13, 32}

RECURSIVE LStrip(_)
LStrip(s) ==
    IF s # << >> /\ IsSpace(s[1]) THEN LStrip(Tail(s)) ELSE s

RECURSIVE RStrip(_)
RStrip(s) ==
    IF s # << >> /\ IsSpace(s[Len(s)]) THEN RStrip(SubSeq(s, 1, Len(s) - 1)) ELSE s

\* the value of a digit string, most significant digit first (underscores
\* skipped); leading zeros leave the value at zero
RECURSIVE DigitsValue(_, _, _)
DigitsValue(s, i, acc) ==
    IF i > Len(s) THEN acc
    ELSE IF s[i] = 95 THEN DigitsValue(s, i + 1, acc)
    ELSE IF acc = << >>
         THEN DigitsValue(s, i + 1, IF s[i] = 48 THEN << >> ELSE << s[i] - 48 >>)
    ELSE DigitsValue(s, i + 1, MulAdd10(acc, s[i] - 48))

\* int(prime_str): Python's base-10 parse.  Surrounding whitespace is
\* dropped, one sign is allowed, digits may be separated by single
\* underscores.  [ok |-> FALSE] stands for ValueError.
int_parse(s) ==
    LET t == RStrip(LStrip(s))
        signed == t # << >> /\ t[1] \in {43, 45}
        body == IF signed THEN Tail(t) ELSE t
        wellformed ==
            /\ body # << >>
            /\ \A i \in 1..Len(body) : IsDigit(body[i]) \/ body[i] = 95
            /\ IsDigit(body[1]) /\ IsDigit(body[Len(body)])
            /\ \A i \in 1..(Len(body) - 1) : ~(body[i] = 95 /\ body[i + 1] = 95)
    IN IF wellformed
       THEN [ok |-> TRUE,
             neg |-> signed /\ t[1] = 45 /\ DigitsValue(body, 1, << >>) # << >>,
             mag |-> DigitsValue(body, 1, << >>)]
       ELSE [ok |-> FALSE, neg |-> FALSE, mag |-> << >>]

----------------------------------------------------------------------------
(* UTF-8.                                                                  *)

IsCont(b) == b >= 128 /\ b <= 191

\* str.encode('utf-8') of one code point (a Unicode scalar value)
utf8_encode_char(c) ==
    IF c < 128 THEN << c >>
    ELSE IF c < 2048 THEN << 192 + (c \div 64), 128 + (c % 64) >>
    ELSE IF c < 65536
         THEN << 224 + (c \div 4096), 128 + ((c \div 64) % 64), 128 + (c % 64) >>
    ELSE << 240 + (c \div 262144), 128 + ((c \div 4096) % 64),
            128 + ((c \div 64) % 64), 128 + (c % 64) >>

RECURSIVE utf8_encode(_)
utf8_encode(text) ==
    IF text = << >> THEN << >>
    ELSE utf8_encode_char(text[1]) \o utf8_encode(Tail(text))

\* The length of the well-formed UTF-8 sequence starting at bs[i], or 0 when
\* none starts there (Python's strict decoder: no overlong forms, no
\* surrogates, nothing above U+10FFFF).
Utf8SeqLen(bs, i) ==
    LET b == bs[i]
        n == Len(bs)
        c(k) == i + k <= n /\ IsCont(bs[i + k])
    IN IF b < 128 THEN 1
       ELSE IF b >= 194 /\ b <= 223 THEN (IF c(1) THEN 2 ELSE 0)
       ELSE IF b = 224
            THEN (IF c(1) /\ bs[i + 1] >= 160 /\ c(2) THEN 3 ELSE 0)
       ELSE IF b = 237
            THEN (IF c(1) /\ bs[i + 1] <= 159 /\ c(2) THEN 3 ELSE 0)
       ELSE IF b >= 225 /\ b <= 239 THEN (IF c(1) /\ c(2) THEN 3 ELSE 0)
       ELSE IF b = 240
            THEN (IF c(1) /\ bs[i + 1] >= 144 /\ c(2) /\ c(3) THEN 4 ELSE 0)
       ELSE IF b = 244
            THEN (IF c(1) /\ bs[i + 1] <= 143 /\ c(2) /\ c(3) THEN 4 ELSE 0)
       ELSE IF b >= 241 /\ b <= 243 THEN (IF c(1) /\ c(2) /\ c(3) THEN 4 ELSE 0)
       ELSE 0

Utf8CodePoint(bs, i, k) ==
    IF k = 1 THEN bs[i]
    ELSE IF k = 2 THEN (bs[i] - 192) * 64 + (bs[i + 1] - 128)
    ELSE IF k = 3
         THEN (bs[i] - 224) * 4096 + (bs[i + 1] - 128) * 64 + (bs[i + 2] - 128)
    ELSE (bs[i] - 240) * 262144 + (bs[i + 1] - 128) * 4096
         + (bs[i + 2] - 128) * 64 + (bs[i + 3] - 128)

RECURSIVE Utf8DecodeFrom(_, _, _)
Utf8DecodeFrom(bs, i, acc) ==
    IF i > Len(bs) THEN [ok |-> TRUE, text |-> acc]
    ELSE LET k == Utf8SeqLen(bs, i)
         IN IF k = 0 THEN [ok |-> FALSE, text |-> << >>]
            ELSE Utf8DecodeFrom(bs, i + k, Append(acc, Utf8CodePoint(bs, i, k)))

\* bytes.decode('utf-8'); [ok |-> FALSE] stands for UnicodeDecodeError
utf8_decode(bs) == Utf8DecodeFrom(bs, 1, << >>)

----------------------------------------------------------------------------
(* Header framing and the big-integer ("prime") codec.                     *)

MaxFilenameLen == 500

\* the text "decoded_file"
DecodedFile == << 100, 101, 99, 111, 100, 101, 100, 95, 102, 105, 108, 101 >>

\* the text "unknown"
Unknown == << 117, 110, 107, 110, 111, 119, 110 >>

Decoded(data, filename) ==
    [ok |-> TRUE, data |-> data, filename |-> filename, detail |-> << >>]

Failure(detail) ==
    [ok |-> FALSE, data |-> << >>, filename |-> << >>, detail |-> detail]

\* bytes_to_prime_string, the header construction:
\* [4 bytes: filename length][filename bytes][4 bytes: data length][data]
frame(data, filename) ==
    LET filename_bytes == utf8_encode(filename)
        filename_len == Len(filename_bytes)
        data_len == Len(data)
        header == to_bytes4(filename_len) \o filename_bytes \o to_bytes4(data_len)
    IN header \o data

\* "Validate: filename length should be reasonable"
filename_len_ok(filename_len) == 0 <= filename_len /\ filename_len <= MaxFilenameLen

\* the payload length accepted only when bytes are left over after it
data_len_lt(data_len, remaining) == data_len < remaining

\* "Validate data length"
data_len_ok(data_len, remaining) == data_len <= remaining

\* prime_string_to_bytes, the strict header parse and its fallback
unframe(full_data) ==
    LET n == Len(full_data)
        fallback == Decoded(full_data, DecodedFile)
    IN IF n >= 8
       THEN LET filename_len == from_bytes4(Slice(full_data, 0, 4))
            IN IF filename_len_ok(filename_len)
               THEN LET filename_start == 4
                        filename_end == filename_start + filename_len
                    IN IF filename_end <= n
                       THEN LET name == utf8_decode(Slice(full_data, filename_start, filename_end))
                                data_len_start == filename_end
                                data_len_end == data_len_start + 4
                            IN IF ~name.ok THEN fallback
                               ELSE IF data_len_end <= n
                               THEN LET data_len == from_bytes4(Slice(full_data, data_len_start, data_len_end))
                                    IN IF data_len_ok(data_len, n - data_len_end)
                                       THEN LET data_start == data_len_end
                                                data_end == data_start + data_len
                                            IN Decoded(Slice(full_data, data_start, data_end), name.text)
                                       ELSE fallback
                               ELSE fallback
                       ELSE fallback
               ELSE fallback
       ELSE fallback

\* bytes_to_prime_string.  str() cannot raise ValueError: the digit limit is
\* switched off (sys.set_int_max_str_digits(0)), so the handler that would
\* render the number in base 16 is never entered.
bytes_to_prime_string(data, filename) ==
    LET full_data == frame(data, filename)
        big_int == int_from_bytes(full_data)
    IN int_to_str(big_int)

\* prime_string_to_bytes.  int() raising ValueError, and to_bytes() raising
\* OverflowError on a negative number, both end in the 400 failure.
prime_string_to_bytes(prime_str) ==
    LET big_int == int_parse(prime_str)
    IN IF ~big_int.ok \/ big_int.neg
       THEN Failure(<< "Invalid prime string" >>)
       ELSE unframe(int_to_bytes(big_int.mag, byte_length(big_int.mag)))

----------------------------------------------------------------------------
(* The note-sequence (MIDI) codec.  A MIDI file is its list of tracks, a   *)
(* track its list of messages; the file's byte form is mido's business.    *)

Message(type, channel, note, velocity, time) ==
    [type |-> type, channel |-> channel, note |-> note, velocity |-> velocity,
     program |-> 0, time |-> time]

ProgramChange(channel, program) ==
    [type |-> "program_change", channel |-> channel, note |-> 0, velocity |-> 0,
     program |-> program, time |-> 0]

EndOfTrack ==
    [type |-> "end_of_track", channel |-> 0, note |-> 0, velocity |-> 0,
     program |-> 0, time |-> 0]

\* encode_to_midi: note = 48 + (byte % 64)
note_of(byte) == 48 + (byte % 64)

\* encode_to_midi: velocity = max(40, min(127, 40 + (byte >> 2)))
velocity_of(byte) == Max(40, Min(127, 40 + (byte \div 4)))

\* encode_to_midi: the data track, a note_on and a note_off per byte
RECURSIVE data_track(_, _)
data_track(content, i) ==
    IF i > Len(content) THEN << >>
    ELSE LET byte == content[i]
             note == note_of(byte)
             velocity == velocity_of(byte)
             time == IF i - 1 > 0 THEN 120 ELSE 0
         IN << Message("note_on", 0, note, velocity, time),
               Message("note_off", 0, note, velocity, 120) >>
            \o data_track(content, i + 1)

\* add_musical_tracks, the loop over the data track: i counts its messages
\* from 0, time is the time of the message before
RECURSIVE accompany(_, _, _, _)
accompany(track, i, time, acc) ==
    IF i >= Len(track) THEN acc
    ELSE LET msg == track[i + 1]
             note == msg.note
             velocity == msg.velocity
             bass_note == (note % 12) + 36
             chord_notes == << note, (note + 4) % 128, (note + 7) % 128 >>
             bass == << Message("note_on", 1, bass_note, velocity \div 2, time),
                        Message("note_off", 1, bass_note, velocity \div 2, 480) >>
             chord == [k \in 1..3 |-> Message("note_on", 2, chord_notes[k], velocity \div 3, 0)]
                      \o [k \in 1..3 |-> Message("note_off", 2, chord_notes[k], velocity \div 3, 240)]
             drum == IF i % 4 = 0
                     THEN << Message("note_on", 9, 36, 100, time),
                             Message("note_off", 9, 36, 100, 100) >>
                     ELSE IF i % 4 = 2
                     THEN << Message("note_on", 9, 38, 80, time),
                             Message("note_off", 9, 38, 80, 100) >>
                     ELSE << >>
         IN IF msg.type = "note_on"
            THEN accompany(track, i + 1, msg.time,
                           [bass |-> acc.bass \o bass, chord |-> acc.chord \o chord,
                            drum |-> acc.drum \o drum])
            ELSE accompany(track, i + 1, msg.time, acc)

\* add_musical_tracks(mid, data_track): the tracks of mid afterwards
add_musical_tracks(tracks, track) ==
    LET acc == accompany(track, 0, 0,
                         [bass |-> << ProgramChange(1, 32) >>,
                          chord |-> << ProgramChange(2, 0) >>,
                          drum |-> << >>])
    IN tracks \o << acc.bass, acc.chord, acc.drum >>

\* mid.save: mido closes every track with an end_of_track meta message
save_midi(tracks) == [t \in 1..Len(tracks) |-> Append(tracks[t], EndOfTrack)]

\* encode_to_midi: the file built for a non-empty content
midi_file(content, mode) ==
    LET track == data_track(content, 1)
        tracks == << track >>
    IN save_midi(IF mode = "musical" THEN add_musical_tracks(tracks, track) ELSE tracks)

\* decode_from_midi: the velocity part without its upper clamp
velocity_part_unclamped(velocity) == Max(0, (velocity - 40) * 4)

\* decode_from_midi: min(192, max(0, (velocity - 40) << 2))
velocity_part(velocity) == Min(192, Max(0, (velocity - 40) * 4))

\* decode_from_midi: the byte of one note_on message
byte_of(msg) ==
    LET note_offset == msg.note - 48
        byte_value == (note_offset % 64) + velocity_part(msg.velocity)
    IN byte_value % 256

RECURSIVE extract_bytes(_, _)
extract_bytes(track, i) ==
    IF i > Len(track) THEN << >>
    ELSE IF track[i].type = "note_on"
         THEN << byte_of(track[i]) >> \o extract_bytes(track, i + 1)
         ELSE extract_bytes(track, i + 1)

\* the last track of the file
last_track(tracks) == tracks[Len(tracks)]

\* decode_from_midi: track = mid.tracks[0]
first_track(tracks) == tracks[1]

----------------------------------------------------------------------------
(* Inputs.                                                                 *)

\* payload bytes handed to the framing and to the prime codec
PayloadBytes == {0, 1, 255}

\* filename code points: NUL, "a", e-acute (two bytes in UTF-8)
NameChars == {0, 97, 233}

\* bytes of arbitrary buffers: 0xC3 0xA9 is e-acute, either byte alone is
\* not valid UTF-8
BufferBytes == {0, 1, 169, 195}

\* first four bytes of arbitrary buffers: the length fields 0, 1, 2, 500,
\* 501, 2^24 and 2^32 - 1
FirstFields ==
    { to_bytes4(0), to_bytes4(1), to_bytes4(2), to_bytes4(MaxFilenameLen),
      to_bytes4(MaxFilenameLen + 1), << 1, 0, 0, 0 >>, << 255, 255, 255, 255 >> }

Buffers ==
    SeqsUpTo(BufferBytes, 3)
    \cup {first \o rest : first \in FirstFields, rest \in SeqsUpTo(BufferBytes, MaxRest)}

\* characters of arbitrary prime strings: "0", "7", "f", "z", "-"
PrimeChars == {48, 55, 102, 122, 45}

NoCarrier == [kind |-> "none"]

----------------------------------------------------------------------------
(* The framing and the prime codec as functions.                           *)

Init ==
    /\ op = "start"
    /\ req = << >>
    /\ resp = << >>
    /\ steps = << >>
    /\ held = NoCarrier

Idle == op = "start"

\* the exchange is over: the service keeps nothing of it
Finish ==
    /\ ~Idle
    /\ op' = "start"
    /\ req' = << >>
    /\ resp' = << >>
    /\ steps' = << >>
    /\ held' = NoCarrier

\* unframe(frame(data, filename))
FrameUnframe ==
    /\ Idle
    /\ \E data \in SeqsUpTo(PayloadBytes, MaxPayload), filename \in SeqsUpTo(NameChars, MaxName) :
        /\ op' = "unframe_frame"
        /\ req' = [data |-> data, filename |-> filename, buffer |-> frame(data, filename)]
        /\ resp' = unframe(frame(data, filename))
        /\ steps' = << >>
        /\ held' = NoCarrier

\* unframe(buffer) for an arbitrary buffer
UnframeBuffer ==
    /\ Idle
    /\ \E buffer \in Buffers :
        /\ op' = "unframe"
        /\ req' = [buffer |-> buffer]
        /\ resp' = unframe(buffer)
        /\ steps' = << >>
        /\ held' = NoCarrier

NextFraming == FrameUnframe \/ UnframeBuffer \/ Finish

SpecFraming == Init /\ [][NextFraming]_vars

\* bytes_to_prime_string(data, filename); the caller keeps the string
PrimeEncode ==
    /\ Idle
    /\ \E data \in SeqsUpTo(PayloadBytes, MaxPayload), filename \in SeqsUpTo(NameChars, MaxName) :
        /\ op' = "bytes_to_prime_string"
        /\ req' = [data |-> data, filename |-> filename]
        /\ resp' = [ok |-> TRUE, prime_string |-> bytes_to_prime_string(data, filename)]
        /\ steps' = << >>
        /\ held' = [kind |-> "prime", carrier |-> bytes_to_prime_string(data, filename),
                    data |-> data, filename |-> filename]

\* prime_string_to_bytes on the string the caller keeps
PrimeDecodeHeld ==
    /\ held.kind = "prime"
    /\ op' = "prime_string_to_bytes"
    /\ req' = [prime_string |-> held.carrier]
    /\ resp' = prime_string_to_bytes(held.carrier)
    /\ steps' = << >>
    /\ held' = held

\* prime_string_to_bytes on an arbitrary string
PrimeDecodeAny ==
    /\ Idle
    /\ \E prime_str \in SeqsUpTo(PrimeChars, MaxPrimeStr) :
        /\ op' = "prime_string_to_bytes"
        /\ req' = [prime_string |-> prime_str]
        /\ resp' = prime_string_to_bytes(prime_str)
        /\ steps' = << >>
        /\ held' = NoCarrier

NextPrime == PrimeEncode \/ PrimeDecodeHeld \/ PrimeDecodeAny \/ Finish

SpecPrime == Init /\ [][NextPrime]_vars

----------------------------------------------------------------------------
(* The request handlers.  A failure is the HTTPException the handler       *)
(* raises: status 400 and its detail, the detail of a re-raised failure    *)
(* behind the text the outer handler puts before it.  steps lists the      *)
(* codec calls the handler made, in order.  The response object around a   *)
(* result (StreamingResponse and its headers) is the transport layer's.    *)

HTTPError(detail) == [ok |-> FALSE, status |-> 400, detail |-> detail]

HTTPOk(body) == [ok |-> TRUE, status |-> 200, body |-> body]

\* calculate_hash: SHA-256, kept as a digest that names its input
calculate_hash(data) == [sha256 |-> data]

\* base64.b64encode, kept as a text that names its input
b64encode(data) == [base64 |-> data]

\* "not content" for a byte string
IsEmpty(content) == content = << >>

\* encode_to_midi
encode_to_midi(content, mode) ==
    IF IsEmpty(content)
    THEN [resp |-> HTTPError(<< "File is empty" >>), steps |-> << >>]
    ELSE [resp |-> HTTPOk([midi |-> midi_file(content, mode),
                           original_hash |-> calculate_hash(content)]),
          steps |-> << "data_track" >>
                    \o (IF mode = "musical" THEN << "add_musical_tracks" >> ELSE << >>)
                    \o << "save", "calculate_hash" >>]

\* decode_from_midi.  file.kind is what the upload holds: nothing ("empty"),
\* bytes mido cannot parse ("garbage") or a MIDI file ("midi") with its tracks.
decode_from_midi(file) ==
    IF file.kind = "empty"
    THEN [resp |-> HTTPError(<< "File is empty" >>), steps |-> << >>]
    ELSE IF file.kind = "garbage"
    THEN [resp |-> HTTPError(<< "Could not decode MIDI", "parse error" >>),
          steps |-> << "MidiFile" >>]
    ELSE IF file.tracks = << >>
    THEN [resp |-> HTTPError(<< "Could not decode MIDI", "MIDI file has no tracks" >>),
          steps |-> << "MidiFile" >>]
    ELSE LET track == first_track(file.tracks)
             original_bytes == extract_bytes(track, 1)
         IN [resp |-> HTTPOk([data |-> original_bytes,
                              decoded_hash |-> calculate_hash(original_bytes)]),
             steps |-> << "MidiFile", "extract_bytes", "calculate_hash" >>]

\* encode_to_prime
encode_to_prime(content, filename) ==
    IF IsEmpty(content)
    THEN [resp |-> HTTPError(<< "File is empty" >>), steps |-> << >>]
    ELSE LET name == IF filename = << >> THEN Unknown ELSE filename
             prime_str == bytes_to_prime_string(content, name)
         IN [resp |-> HTTPOk([prime_string |-> prime_str,
                              original_hash |-> calculate_hash(content),
                              original_size |-> Len(content),
                              original_filename |-> name,
                              digit_count |-> Len(prime_str)]),
             steps |-> << "calculate_hash", "bytes_to_prime_string" >>]

\* decode_from_prime.  prime_data.has tells whether the key is present.
decode_from_prime(prime_data) ==
    IF ~prime_data.has \/ prime_data.prime_string = << >>
    THEN [resp |-> HTTPError(<< "Missing prime_string" >>), steps |-> << >>]
    ELSE LET out == prime_string_to_bytes(prime_data.prime_string)
         IN IF ~out.ok
            THEN [resp |-> HTTPError(<< "Could not decode prime" >> \o out.detail),
                  steps |-> << "prime_string_to_bytes" >>]
            ELSE [resp |-> HTTPOk([data |-> out.data, filename |-> out.filename,
                                   decoded_hash |-> calculate_hash(out.data)]),
                  steps |-> << "prime_string_to_bytes", "calculate_hash" >>]

\* the ceiling on a QR payload, in bytes
QRMaxSize == 500 * 1024

\* the payload refused from the ceiling itself on
too_large_ge(size) == size >= QRMaxSize

\* encode_to_qr: len(content) > 500 * 1024
too_large(size) == size > QRMaxSize

\* what the largest symbol (version 40, error correction L) holds, in bytes
QRCapacity == 2953

\* the length of json.dumps(data_to_encode) for an ASCII filename
json_length(name, size) == 104 + Len(name) + 4 * ((size + 2) \div 3)

\* encode_to_qr.  The content is size copies of the byte fill.
encode_to_qr(content, filename) ==
    IF content.size = 0
    THEN [resp |-> HTTPError(<< "File is empty" >>), steps |-> << >>]
    ELSE IF too_large(content.size)
    THEN [resp |-> HTTPError(<< "File too large for QR encoding (max 500KB)" >>),
          steps |-> << >>]
    ELSE LET file_hash == calculate_hash(content)
             name == IF filename = << >> THEN Unknown ELSE filename
             data_to_encode == [filename |-> name, hash |-> file_hash,
                                data |-> b64encode(content)]
         IN IF json_length(name, content.size) > QRCapacity
            THEN [resp |-> HTTPError(<< "Could not create QR code", "data overflow" >>),
                  steps |-> << "calculate_hash", "b64encode", "json.dumps", "qr.make" >>]
            ELSE [resp |-> HTTPOk([image |-> [kind |-> "qr", utf8 |-> TRUE, json |-> "record",
                                              record |-> data_to_encode],
                                   original_hash |-> file_hash]),
                  steps |-> << "calculate_hash", "b64encode", "json.dumps", "qr.make",
                               "make_image", "save" >>]

\* decode_from_qr.  image.kind is what image_data holds: the empty text
\* ("empty"), text that is not base64 ("bad_base64"), bytes that are no
\* image ("not_image"), an image without a symbol ("blank") or an image of a
\* symbol ("qr"), whose bytes are UTF-8 or not and are no JSON ("invalid"),
\* JSON without the data field ("no_data") or a record ("record").
decode_from_qr(image) ==
    LET wrap(cause) == HTTPError(<< "Could not decode QR", cause >>)
    IN IF image.kind = "bad_base64"
       THEN [resp |-> wrap("incorrect padding"), steps |-> << "b64decode" >>]
       ELSE IF image.kind \in {"empty", "not_image"}
       THEN [resp |-> wrap("cannot identify image file"),
             steps |-> << "b64decode", "Image.open" >>]
       ELSE IF image.kind = "blank"
       THEN [resp |-> wrap("No QR code found in image"),
             steps |-> << "b64decode", "Image.open", "pyzbar.decode" >>]
       ELSE LET scan == << "b64decode", "Image.open", "pyzbar.decode",
                           IF image.utf8 THEN "decode utf-8" ELSE "decode latin-1",
                           "json.loads" >>
            IN IF image.json = "invalid"
               THEN [resp |-> wrap("Invalid QR code data format"), steps |-> scan]
               ELSE IF image.json = "no_data"
               THEN [resp |-> wrap("'data'"), steps |-> scan]
               ELSE LET file_data == image.record.data.base64
                    IN [resp |-> HTTPOk([data |-> file_data,
                                         filename |-> image.record.filename,
                                         decoded_hash |-> calculate_hash(file_data),
                                         original_hash |-> image.record.hash]),
                        steps |-> scan \o << "b64decode", "calculate_hash" >>]

DigestLen == 64

\* str.lower() of one ASCII code point
lower_char(c) == IF c >= 65 /\ c <= 90 THEN c + 32 ELSE c

\* str.lower()
lower(text) == [i \in 1..Len(text) |-> lower_char(text[i])]

\* the comparison made on the texts as given
verify_match_exact(original_hash, decoded_hash) == original_hash = decoded_hash

\* verify_hashes: match
verify_match(original_hash, decoded_hash) == lower(original_hash) = lower(decoded_hash)

\* verify_hashes: verified
verify_verified(original_hash, decoded_hash) ==
    Len(original_hash) = DigestLen /\ Len(decoded_hash) = DigestLen

\* verify_hashes
verify_hashes(original_hash, decoded_hash) ==
    [verified |-> verify_verified(original_hash, decoded_hash),
     match |-> verify_match(original_hash, decoded_hash)]

----------------------------------------------------------------------------
(* Inputs of the handlers.                                                 *)

\* bytes of the longer MIDI payloads
MidiBytes == {0, 4, 255}

\* every single byte, and the short payloads over MidiBytes
MidiContents == {<< b >> : b \in 0..255} \cup SeqsUpTo(MidiBytes, MaxMidiLen)

Modes == {"raw", "musical", "swing"}

\* messages of uploaded MIDI files
FileMessages ==
    {Message("note_on", 0, n, v, 0) : n \in {0, 48, 127}, v \in {0, 40, 127}}
    \cup {Message("note_off", 0, 60, 64, 0)}

MidiFiles ==
    {[kind |-> "empty", tracks |-> << >>], [kind |-> "garbage", tracks |-> << >>],
     [kind |-> "midi", tracks |-> << >>]}
    \cup {[kind |-> "midi", tracks |-> << t >>] : t \in SeqsUpTo(FileMessages, MaxTrackLen)}
    \cup {[kind |-> "midi", tracks |-> << t, << Message("note_on", 0, 60, 100, 0) >> >>] :
             t \in SeqsUpTo(FileMessages, MaxTrackLen)}

PrimeData ==
    {[has |-> FALSE, prime_string |-> << >>]}
    \cup {[has |-> TRUE, prime_string |-> t] : t \in SeqsUpTo(PrimeChars, MaxPrimeStr)}

\* QR payloads: sizes around the ceiling, small ones, one beyond a symbol's
\* capacity and 600 KiB
QRSizes ==
    {0, 1, 3, 4096, 600 * 1024}
    \cup ((QRMaxSize - SizeSlack)..(QRMaxSize + SizeSlack))

QRContents == {[size |-> n, fill |-> b] : n \in QRSizes, b \in {0, 255}}

QRNames == {<< >>, << 97 >>}

QRImages ==
    {[kind |-> k, utf8 |-> TRUE, json |-> "invalid", record |-> << >>] :
        k \in {"empty", "bad_base64", "not_image", "blank"}}
    \cup {[kind |-> "qr", utf8 |-> u, json |-> j, record |-> << >>] :
            u \in BOOLEAN, j \in {"invalid", "no_data"}}
    \cup {[kind |-> "qr", utf8 |-> TRUE, json |-> "record",
           record |-> [filename |-> << 97 >>, hash |-> calculate_hash([size |-> 1, fill |-> 0]),
                       data |-> b64encode(c)]] : c \in QRContents}

\* characters of the texts handed to the verifier: "A", "a", "B", "0"
HashChars == {65, 97, 66, 48}

\* texts of one repeated character, with or without one other character at
\* the end, of lengths around 64 and of length 0
Hashes ==
    {Repeat(c, n) \o tail :
        c \in HashChars,
        n \in {0} \cup ((DigestLen - 1 - LenSlack)..(DigestLen + LenSlack)),
        tail \in {<< >>} \cup {<< t >> : t \in HashChars}}

----------------------------------------------------------------------------
(* The service: one action per handler.                                    *)

Exchange(name, request, out, carrier) ==
    /\ op' = name
    /\ req' = request
    /\ resp' = out.resp
    /\ steps' = out.steps
    /\ held' = carrier

EncodeToMidi ==
    /\ Idle
    /\ \E content \in MidiContents, mode \in Modes :
        LET out == encode_to_midi(content, mode)
        IN Exchange("encode_to_midi", [content |-> content, mode |-> mode], out,
                    IF out.resp.ok
                    THEN [kind |-> "midi", carrier |-> out.resp.body.midi,
                          data |-> content, mode |-> mode]
                    ELSE NoCarrier)

\* the client uploads the MIDI file it was given
DecodeFromMidiHeld ==
    /\ held.kind = "midi"
    /\ op = "encode_to_midi"
    /\ LET file == [kind |-> "midi", tracks |-> held.carrier]
       IN Exchange("decode_from_midi", [file |-> file], decode_from_midi(file), held)

DecodeFromMidi ==
    /\ Idle
    /\ \E file \in MidiFiles :
        Exchange("decode_from_midi", [file |-> file], decode_from_midi(file), NoCarrier)

EncodeToPrime ==
    /\ Idle
    /\ \E content \in SeqsUpTo(PayloadBytes, MaxPayload), filename \in SeqsUpTo(NameChars, MaxName) :
        LET out == encode_to_prime(content, filename)
        IN Exchange("encode_to_prime", [content |-> content, filename |-> filename], out,
                    IF out.resp.ok
                    THEN [kind |-> "prime", carrier |-> out.resp.body.prime_string,
                          data |-> content, filename |-> out.resp.body.original_filename]
                    ELSE NoCarrier)

\* the client posts the prime string it was given
DecodeFromPrimeHeld ==
    /\ held.kind = "prime"
    /\ op = "encode_to_prime"
    /\ LET prime_data == [has |-> TRUE, prime_string |-> held.carrier]
       IN Exchange("decode_from_prime", [prime_data |-> prime_data],
                   decode_from_prime(prime_data), held)

DecodeFromPrime ==
    /\ Idle
    /\ \E prime_data \in PrimeData :
        Exchange("decode_from_prime", [prime_data |-> prime_data],
                 decode_from_prime(prime_data), NoCarrier)

EncodeToQr ==
    /\ Idle
    /\ \E content \in QRContents, filename \in QRNames :
        LET out == encode_to_qr(content, filename)
        IN Exchange("encode_to_qr", [content |-> content, filename |-> filename], out,
                    IF out.resp.ok
                    THEN [kind |-> "qr", carrier |-> out.resp.body.image,
                          data |-> content, filename |-> filename]
                    ELSE NoCarrier)

\* the client posts the image it was given
DecodeFromQrHeld ==
    /\ held.kind = "qr"
    /\ op = "encode_to_qr"
    /\ Exchange("decode_from_qr", [image |-> held.carrier], decode_from_qr(held.carrier), held)

DecodeFromQr ==
    /\ Idle
    /\ \E image \in QRImages :
        Exchange("decode_from_qr", [image |-> image], decode_from_qr(image), NoCarrier)

VerifyHashes ==
    /\ Idle
    /\ \E original_hash \in Hashes, decoded_hash \in Hashes :
        Exchange("verify_hashes",
                 [original_hash |-> original_hash, decoded_hash |-> decoded_hash],
                 [resp |-> verify_hashes(original_hash, decoded_hash), steps |-> << >>],
                 NoCarrier)

Next ==
    \/ EncodeToMidi \/ DecodeFromMidiHeld \/ DecodeFromMidi
    \/ EncodeToPrime \/ DecodeFromPrimeHeld \/ DecodeFromPrime
    \/ EncodeToQr \/ DecodeFromQrHeld \/ DecodeFromQr
    \/ VerifyHashes
    \/ Finish

Spec == Init /\ [][Next]_vars

----------------------------------------------------------------------------
(* Claims on the framing.                                                  *)

\* C2: framing round trip.  For every payload and every filename whose UTF-8
\* form has at most 500 bytes, the strict header parse applied to the framed
\* buffer returns exactly the payload and the filename (the empty payload and
\* the empty filename included).
C2_FramingRoundTrip ==
    (op = "unframe_frame" /\ Len(utf8_encode(req.filename)) <= MaxFilenameLen)
        => resp = Decoded(req.data, req.filename)

C2_Witness ==
    /\ op = "unframe_frame"
    /\ req.filename = << 233, 97 >>
    /\ req.data = << 255, 0 >>
    /\ resp.ok /\ resp.filename = << 233, 97 >> /\ resp.data = << 255, 0 >>

C2_WitnessEmpty ==
    /\ op = "unframe_frame"
    /\ req.filename = << >> /\ req.data = << >>
    /\ resp.ok /\ resp.filename = << >> /\ resp.data = << >>

\* The conditions under which a buffer is not a strict frame, as the data
\* model states them.
TooShort(b) == Len(b) < 8

NameLenField(b) == from_bytes4(<< b[1], b[2], b[3], b[4] >>)

NameTooLong(b) == NameLenField(b) > MaxFilenameLen

NamePastEnd(b) == 4 + NameLenField(b) > Len(b)

NameBytes(b) == SubSeq(b, 5, 4 + NameLenField(b))

NameNotUtf8(b) == ~utf8_decode(NameBytes(b)).ok

DataLenMissing(b) == 4 + NameLenField(b) + 4 > Len(b)

DataLenField(b) ==
    LET at == 4 + NameLenField(b)
    IN from_bytes4(<< b[at + 1], b[at + 2], b[at + 3], b[at + 4] >>)

DataPastEnd(b) == DataLenField(b) > Len(b) - (8 + NameLenField(b))

NotAFrame(b) ==
    \/ TooShort(b)
    \/ NameTooLong(b)
    \/ NamePastEnd(b)
    \/ NameNotUtf8(b)
    \/ DataLenMissing(b)
    \/ DataPastEnd(b)

\* C3: unframe never fails.  A buffer that is shorter than 8 bytes, whose
\* filename length exceeds 500, whose filename runs past the buffer or is not
\* valid UTF-8, whose payload length field is missing or whose payload length
\* exceeds the bytes that remain yields the whole buffer with the filename
\* "decoded_file"; every other buffer yields the framed payload slice and the
\* framed filename.
C3_UnframeTotal ==
    op \in {"unframe", "unframe_frame"} =>
        LET b == req.buffer
        IN /\ resp.ok
           /\ NotAFrame(b) => (resp.data = b /\ resp.filename = DecodedFile)
           /\ ~NotAFrame(b) =>
                 /\ resp.filename = utf8_decode(NameBytes(b)).text
                 /\ resp.data = SubSeq(b, 8 + NameLenField(b) + 1,
                                       8 + NameLenField(b) + DataLenField(b))

\* a buffer whose one-byte filename is not valid UTF-8 falls back
C3_Witness ==
    /\ op = "unframe"
    /\ Len(req.buffer) >= 9
    /\ NameLenField(req.buffer) = 1
    /\ NameNotUtf8(req.buffer)
    /\ ~DataLenMissing(req.buffer) /\ ~DataPastEnd(req.buffer)
    /\ resp = Decoded(req.buffer, DecodedFile)

\* an arbitrary buffer that is a strict frame, with bytes left after the payload
C3_WitnessFramed ==
    /\ op = "unframe"
    /\ ~NotAFrame(req.buffer)
    /\ resp.filename = << 1 >>
    /\ resp.data = << >>
    /\ Len(req.buffer) > 8 + NameLenField(req.buffer) + DataLenField(req.buffer)

----------------------------------------------------------------------------
(* Claims on the prime codec.                                              *)

RoundTripExact == resp.ok /\ resp.data = held.data /\ resp.filename = held.filename

\* the framed buffer of the string the caller holds
HeldFrame == frame(held.data, held.filename)

ValidBase10(s) == s # << >> /\ \A i \in 1..Len(s) : IsDigit(s[i])

IsHexDigit(c) == IsDigit(c) \/ (c >= 97 /\ c <= 102) \/ (c >= 65 /\ c <= 70)

ValidBase16(s) == s # << >> /\ \A i \in 1..Len(s) : IsHexDigit(s[i])

\* C4: decode fails with the 'Invalid prime string' failure only when the
\* string is a valid numeral in neither base 10 nor base 16; a string that is
\* a numeral in base 16 alone is decoded.
C4_HexFallbackDecodes ==
    op = "prime_string_to_bytes" =>
        (~resp.ok <=> ~(ValidBase10(req.prime_string) \/ ValidBase16(req.prime_string)))

----------------------------------------------------------------------------
(* Claims on the verifier.                                                 *)

IsAsciiLetter(c) == (c >= 65 /\ c <= 90) \/ (c >= 97 /\ c <= 122)

SameIgnoringCase(a, b) ==
    a = b \/ (IsAsciiLetter(a) /\ IsAsciiLetter(b) /\ (a = b + 32 \/ b = a + 32))

EqualIgnoringCase(s, t) ==
    Len(s) = Len(t) /\ \A i \in 1..Len(s) : SameIgnoringCase(s[i], t[i])

\* C5: verify never fails; match tells whether the two texts are equal
\* ignoring case, verified whether both have length exactly 64, each
\* whatever the other is.
C5_VerifyDecoupled ==
    op = "verify_hashes" =>
        /\ resp.match = EqualIgnoringCase(req.original_hash, req.decoded_hash)
        /\ resp.verified = (Len(req.original_hash) = 64 /\ Len(req.decoded_hash) = 64)

\* two texts of length 63 that differ in case only: match without verified
C5_Witness ==
    /\ op = "verify_hashes"
    /\ req.original_hash = Repeat(65, 63) /\ req.decoded_hash = Repeat(97, 63)
    /\ resp.match /\ ~resp.verified

\* two different texts of length 64: verified without match
C5_WitnessVerifiedOnly ==
    /\ op = "verify_hashes"
    /\ req.original_hash = Repeat(65, 64) /\ req.decoded_hash = Repeat(66, 64)
    /\ ~resp.match /\ resp.verified

----------------------------------------------------------------------------
(* Claims on the note-sequence codec.                                      *)

\* a decode of the MIDI file that encode made of held.data
MidiRoundTrip == op = "decode_from_midi" /\ held.kind = "midi" /\ resp.ok

\* C6, as claimed: a byte comes back from encode and decode only if it is
\* below 128; 0x00 comes back as 0x00 and 0xFF does not come back as 0xFF.
C6_LowerRangeOnly ==
    MidiRoundTrip =>
        \A i \in 1..Len(held.data) :
            LET b == held.data[i]
                d == resp.body.data[i]
            IN /\ d = b => b < 128
               /\ b = 0 => d = 0
               /\ b = 255 => d # 255

\* C6, amended: the encode velocity is 40 + (b >> 2), never clamped; the
\* byte that comes back is (b mod 64) + min(192, b - b mod 4), which is b
\* exactly when b mod 64 < 4 or b >= 192.  0x00 and 0xFF both come back.
C6_RecoveredBytes ==
    MidiRoundTrip =>
        /\ Len(resp.body.data) = Len(held.data)
        /\ \A i \in 1..Len(held.data) :
            LET b == held.data[i]
                d == resp.body.data[i]
                on == held.carrier[1][2 * i - 1]
            IN /\ on.type = "note_on"
               /\ on.note = 48 + (b % 64)
               /\ on.velocity = 40 + (b \div 4)
               /\ d = (b % 64) + Min(192, b - (b % 4))
               /\ d = b <=> (b % 64 < 4 \/ b >= 192)

\* 0xFF comes back as 0xFF
C6_Witness ==
    MidiRoundTrip /\ held.data = << 255 >> /\ resp.body.data = << 255 >>

\* 0x04 comes back as 0x08
C6_WitnessLost ==
    MidiRoundTrip /\ held.data = << 4 >> /\ resp.body.data = << 8 >>

\* C7: the bytes decoded from a file encoded in mode "musical" are the bytes
\* decoded from the file encoded in mode "raw": the bass, chord and drum
\* tracks come after the data track, which is the raw file's track, and
\* decode gives one byte per byte of the payload.
C7_MusicalDecodesAsRaw ==
    (MidiRoundTrip /\ held.mode = "musical") =>
        LET raw == midi_file(held.data, "raw")
        IN /\ Len(raw) = 1
           /\ Len(held.carrier) = 4
           /\ held.carrier[1] = raw[1]
           /\ resp.body.data = extract_bytes(raw[1], 1)
           /\ Len(resp.body.data) = Len(held.data)

\* a musical file with a kick and a snare in its drum track
C7_Witness ==
    /\ MidiRoundTrip /\ held.mode = "musical"
    /\ held.data = << 255, 4, 0 >>
    /\ Len(held.carrier[4]) = 7
    /\ resp.body.data = << 255, 8, 0 >>

----------------------------------------------------------------------------
(* Claims on the request checks.                                           *)

TooLargeFailure == HTTPError(<< "File too large for QR encoding (max 500KB)" >>)

\* C8: QR encode fails with the too-large failure exactly when the payload
\* is longer than 500 KiB, and then before the hash is computed or any
\* record or symbol is built.
C8_TooLargeAboveCeiling ==
    op = "encode_to_qr" =>
        /\ resp = TooLargeFailure <=> req.content.size > 500 * 1024
        /\ resp = TooLargeFailure => steps = << >>

\* one byte more than 500 KiB is refused
C8_Witness ==
    /\ op = "encode_to_qr"
    /\ req.content.size = 500 * 1024 + 1
    /\ resp = TooLargeFailure /\ steps = << >>

\* exactly 500 KiB passes the size check (and is then too much for a symbol)
C8_WitnessAtCeiling ==
    /\ op = "encode_to_qr"
    /\ req.content.size = 500 * 1024
    /\ resp # TooLargeFailure /\ steps # << >>

\* a request whose input is empty
EmptyRequest ==
    \/ op \in {"encode_to_midi", "encode_to_prime"} /\ req.content = << >>
    \/ op = "encode_to_qr" /\ req.content.size = 0
    \/ op = "decode_from_midi" /\ req.file.kind = "empty"
    \/ op = "decode_from_prime" /\ req.prime_data.prime_string = << >>
    \/ op = "decode_from_qr" /\ req.image.kind = "empty"

EmptyInputFailure ==
    /\ ~resp.ok
    /\ resp.detail \in {<< "File is empty" >>, << "Missing prime_string" >>}

\* C9: every encode and decode operation given an empty input fails with the
\* empty-input failure before any codec call is made.
C9_EmptyInputRejectedFirst ==
    EmptyRequest => (EmptyInputFailure /\ steps = << >>)

====
